---- MODULE Spec2Model ----
(***************************************************************************)
(* Model of the manus-lite agent server: the Stagehand session registry    *)
(* (stagehandManager), the step executor (runStagehand) and the agent      *)
(* route handlers, plus the ChatFeed client loop that drives them.         *)
(*                                                                         *)
(* Every async function runs atomically from one await to the next (the    *)
(* JavaScript event loop): an action of the model is one such segment.     *)
(* A request in flight is a task: the stack of return addresses of the     *)
(* async functions it is inside, and the await it is suspended on.         *)
(***************************************************************************)
EXTENDS Naturals, Integers, Sequences, FiniteSets

\* ------------------------------------------------------------------ bounds
NumCallers  == 3     \* concurrent direct callers of the registry functions
NumSessions == 2     \* session identifiers; one ChatFeed run per identifier
MaxHandles  == 3     \* Stagehand objects constructed in one behaviour
MaxSteps    == 3     \* steps recorded by one run (the oracle closes by then)

SessionIDs == 1..NumSessions
Runs       == SessionIDs         \* run r works on the session it created, r
Callers    == 1..NumCallers
LoopTask(r)  == NumCallers + r                     \* /api/agent request of run r
DelTask(r)   == NumCallers + NumSessions + r       \* DELETE /api/session of run r
CleanTask(r) == NumCallers + 2 * NumSessions + r   \* POST /api/cleanup of run r
TaskIds    == 1..(NumCallers + 3 * NumSessions)
Handles    == 1..MaxHandles
NoHandle   == 0
NoRun      == 0

\* type Step / runStagehand's method
Tools       == {"GOTO", "ACT", "EXTRACT", "OBSERVE", "CLOSE", "WAIT", "NAVBACK",
                "USER_INPUT"}
PageMethods == {"GOTO", "ACT", "EXTRACT", "OBSERVE", "NAVBACK"}

\* Step.instruction: empty or not (only USER_INPUT reads the difference)
Instructions   == {"", "instr"}
DefaultMessage == "manual"      \* the fallback text of a USER_INPUT pause
NoStep         == [tool |-> "none", instruction |-> "none"]

VARIABLES
  \* the server process
  stagehandInstances,  \* the Map: session id -> handle, NoHandle when absent
  hstate,              \* per handle: unused, initing, live, initfailed, closed
  hsid,                \* per handle: the browserbaseSessionID it was built for
  closeCalls,          \* per handle: how many times close() was invoked on it
  task,                \* per task id: the request in flight
  useLocalMode,        \* USE_LOCAL_MODE / no BROWSERBASE_API_KEY
  regionCall,          \* the call of getClosestRegion: its argument, the
                       \* clock it reads, and what it returned
  \* the browser window
  rpc,                 \* per run: where initializeSession is
  steps,               \* per run: agentStateRef.current.steps
  endedBy,             \* per run: none, close (CLOSE decided), error
  mounted,             \* the run whose ChatFeed is mounted, NoRun when none
  isAgentFinished,     \* per run: the ChatFeed's isAgentFinished
  waitingForUserInput, \* per run: uiState.waitingForUserInput
  continueAfterUserInput  \* window.continueAfterUserInput: the run whose
                          \* pause it resolves, NoRun while undefined

serverVars == <<stagehandInstances, hstate, hsid, closeCalls, task>>
clientVars == <<rpc, steps, endedBy, mounted, isAgentFinished,
                waitingForUserInput, continueAfterUserInput>>
envVars    == <<useLocalMode, regionCall>>
vars == <<serverVars, envVars, clientVars>>

\* The server-side state as one value, so that a segment of code that calls
\* into another function composes as function application.
St == [inst |-> stagehandInstances, hstate |-> hstate, hsid |-> hsid,
       closeCalls |-> closeCalls, task |-> task, ok |-> TRUE]

Apply(S) ==
  /\ S.ok                  \* FALSE when a bound of the model was exceeded
  /\ stagehandInstances' = S.inst
  /\ hstate' = S.hstate
  /\ hsid' = S.hsid
  /\ closeCalls' = S.closeCalls
  /\ task' = S.task
  /\ useLocalMode' = useLocalMode
  /\ regionCall' = regionCall

\* getClosestRegion's timezone argument, as the list of its '/'-separated
\* pieces (what split("/") returns); no list at all when it is undefined
Undefined    == << >>
NoRegionCall == [pc |-> "idle", timezone |-> Undefined, now |-> 0,
                 serverOffset |-> 0, hourOffset |-> 0, via |-> "none",
                 region |-> "none"]

IdleTask ==
  [op |-> "idle", sid |-> 1, method |-> "none",
   previousSteps |-> << >>, previousExtraction |-> "none",
   stack |-> << >>, pc |-> "idle", h |-> NoHandle, pending |-> {},
   err |-> "none", outcome |-> "none", result |-> "none",
   doneFlag |-> FALSE, ret |-> NoHandle,
   step |-> NoStep, instruction |-> "none",
   \* history of the call, read by the properties only
   prov |-> 0, sawInit |-> {}, found |-> NoHandle, closeFailed |-> FALSE,
   pageCalls |-> 0, pageH |-> NoHandle, pageFailed |-> FALSE, snap |-> {}]

Init ==
  /\ stagehandInstances = [s \in SessionIDs |-> NoHandle]
  /\ hstate = [h \in Handles |-> "unused"]
  /\ hsid = [h \in Handles |-> 1]
  /\ closeCalls = [h \in Handles |-> 0]
  /\ task = [c \in TaskIds |-> IdleTask]
  /\ useLocalMode \in BOOLEAN
  /\ regionCall = NoRegionCall
  /\ rpc = [r \in Runs |-> "NotStarted"]
  /\ steps = [r \in Runs |-> << >>]
  /\ endedBy = [r \in Runs |-> "none"]
  /\ mounted = NoRun
  /\ isAgentFinished = [r \in Runs |-> FALSE]
  /\ waitingForUserInput = [r \in Runs |-> FALSE]
  /\ continueAfterUserInput = NoRun

\* ------------------------------------------------------- calls and returns
HasFresh(S) == \E h \in Handles : S.hstate[h] = "unused"

FreshHandle(S) ==
  CHOOSE h \in Handles :
    /\ S.hstate[h] = "unused"
    /\ \A g \in Handles : S.hstate[g] = "unused" => h <= g

\* An async call: the caller's return address goes on the task's stack.
Push(S, c, addr) == [S EXCEPT !.task[c].stack = <<addr>> \o @]

RECURSIVE Resume(_, _, _, _, _)

\* The function on top of the stack returns (kind "ret") or throws ("thr").
Return(S, c, kind, val) ==
  LET addr == Head(S.task[c].stack)
      S1 == [S EXCEPT !.task[c].stack = Tail(@)]
  IN Resume(S1, c, addr, kind, val)

\* ---------------------------------------------------- stagehandManager.ts
\* getStagehandInstance up to its await: the Map lookup, and when the id is
\* absent the construction of a Stagehand and the start of init().
getStagehandInstance(S, c, sessionID) ==
  LET stagehand == S.inst[sessionID] IN
  IF stagehand # NoHandle
    THEN Return([S EXCEPT !.task[c].h = stagehand], c, "ret", "stagehand")
    ELSE IF ~HasFresh(S) THEN [S EXCEPT !.ok = FALSE]
    ELSE LET new == FreshHandle(S) IN
         [S EXCEPT !.hstate[new] = "initing",
                   !.hsid[new] = sessionID,
                   !.task[c].h = new,
                   !.task[c].pc = "init",
                   !.task[c].prov = @ + 1]

\* init() resolved: the instance is stored under the id and returned.
getStagehandInstanceInitDone(S, c) ==
  LET t == S.task[c] IN
  Return([S EXCEPT !.hstate[t.h] = "live",
                   !.inst[t.sid] = t.h,
                   !.task[c].pc = "run"], c, "ret", "stagehand")

\* init() rejected: nothing is stored, the error leaves the function.
getStagehandInstanceInitFailed(S, c) ==
  LET t == S.task[c] IN
  Return([S EXCEPT !.hstate[t.h] = "initfailed",
                   !.task[c].pc = "run"], c, "thr", "initError")

\* Variant: an absent id is an error instead of a no-op.
closeStagehandInstanceStrict(S, c, sessionID) ==
  LET stagehand == S.inst[sessionID] IN
  IF stagehand # NoHandle
    THEN [S EXCEPT !.closeCalls[stagehand] = @ + 1,
                   !.task[c].h = stagehand,
                   !.task[c].found = stagehand,
                   !.task[c].pc = "close"]
    ELSE Return([S EXCEPT !.task[c].found = NoHandle], c, "thr", "notFound")

\* closeStagehandInstance up to its await: the lookup and the close() call.
closeStagehandInstance(S, c, sessionID) ==
  LET stagehand == S.inst[sessionID] IN
  IF stagehand # NoHandle
    THEN [S EXCEPT !.closeCalls[stagehand] = @ + 1,
                   !.task[c].h = stagehand,
                   !.task[c].found = stagehand,
                   !.task[c].pc = "close"]
    ELSE Return([S EXCEPT !.task[c].found = NoHandle], c, "ret", "undefined")

\* close() resolved: the entry is deleted (by key).
closeStagehandInstanceClosed(S, c) ==
  LET t == S.task[c] IN
  Return([S EXCEPT !.hstate[t.h] = "closed",
                   !.inst[t.sid] = NoHandle,
                   !.task[c].pc = "run"], c, "ret", "undefined")

\* Variant: the catch logs and rethrows.
closeStagehandInstanceCatchRethrow(S, c) ==
  Return([S EXCEPT !.task[c].closeFailed = TRUE,
                   !.task[c].pc = "run"], c, "thr", "closeError")

\* close() rejected: the catch logs, nothing else.
closeStagehandInstanceCatch(S, c) ==
  Return([S EXCEPT !.task[c].closeFailed = TRUE,
                   !.task[c].pc = "run"], c, "ret", "undefined")

Tracked(S) == {S.inst[s] : s \in SessionIDs} \ {NoHandle}

\* closeAllStagehandInstances up to its await: close() is called on every
\* entry of the Map, each with its own then/catch.
closeAllStagehandInstances(S, c) ==
  [S EXCEPT !.closeCalls = [h \in Handles |->
                              IF h \in Tracked(S) THEN @[h] + 1 ELSE @[h]],
            !.task[c].pending = Tracked(S),
            !.task[c].snap = Tracked(S),
            !.task[c].pc = "closeAll"]

\* One of the close() promises settles; a rejection is logged by its catch.
closeAllSettled(S, c, h, ok) ==
  [S EXCEPT !.hstate[h] = IF ok THEN "closed" ELSE @,
            !.task[c].pending = @ \ {h},
            !.task[c].closeFailed = IF ok THEN @ ELSE TRUE]

\* Variant: the Map is cleared only when every close() succeeded.
closeAllStagehandInstancesDoneKeepFailed(S, c) ==
  Return([S EXCEPT !.inst = IF S.task[c].closeFailed
                               THEN @ ELSE [s \in SessionIDs |-> NoHandle],
                   !.task[c].pc = "run"], c, "ret", "undefined")

\* Promise.all resolved: the Map is cleared.
closeAllStagehandInstancesDone(S, c) ==
  Return([S EXCEPT !.inst = [s \in SessionIDs |-> NoHandle],
                   !.task[c].pc = "run"], c, "ret", "undefined")

\* ------------------------------------------------------------ runStagehand
\* The catch of runStagehand: release the session, then rethrow.
runStagehandCatch(S, c, error) ==
  closeStagehandInstance(
    Push([S EXCEPT !.task[c].err = error], c, "run284"), c, S.task[c].sid)

\* The switch inside the try, entered once the instance is there.
runStagehandTry(S, c) ==
  LET t == S.task[c] IN
  CASE t.method \in PageMethods \cup {"SCREENSHOT"} ->
         [S EXCEPT !.task[c].pc = "page", !.task[c].pageCalls = @ + 1,
                   !.task[c].pageH = t.h]
    [] t.method = "CLOSE" ->
         closeStagehandInstance(Push(S, c, "run258"), c, t.sid)
    [] t.method = "WAIT" ->
         [S EXCEPT !.task[c].pc = "wait"]
    [] t.method = "USER_INPUT" ->
         Return(S, c, "ret", "waiting_for_user")
    [] OTHER ->
         Return(S, c, "ret", "undefined")

runStagehand(S, c, method) ==
  getStagehandInstance(
    Push([S EXCEPT !.task[c].method = method], c, "run230"), c, S.task[c].sid)

\* The page call resolved: break or return its payload.
runStagehandPageDone(S, c) ==
  LET m == S.task[c].method
      payload == CASE m = "EXTRACT" -> "extraction"
                   [] m = "OBSERVE" -> "observation"
                   [] m = "SCREENSHOT" -> "screenshot"
                   [] OTHER -> "undefined"
  IN Return([S EXCEPT !.task[c].pc = "run"], c, "ret", payload)

\* The page call rejected: control goes to the catch.
runStagehandPageFailed(S, c) ==
  runStagehandCatch([S EXCEPT !.task[c].pc = "run",
                              !.task[c].pageFailed = TRUE], c, "pageError")

\* The WAIT timer fired.
runStagehandWaitDone(S, c) ==
  Return([S EXCEPT !.task[c].pc = "run"], c, "ret", "undefined")

\* ------------------------------------------------------------- /api/agent
\* A route handler answers: NextResponse.json.
Respond(S, c, success, result, done) ==
  [S EXCEPT !.task[c].pc = "done",
            !.task[c].outcome = IF success THEN "success" ELSE "error",
            !.task[c].result = result,
            !.task[c].doneFlag = done]

\* previousSteps.length > 0 && previousSteps.some(step => step.tool === "GOTO")
HasGoto(previousSteps) ==
  /\ Len(previousSteps) > 0
  /\ \E i \in 1..Len(previousSteps) : previousSteps[i].tool = "GOTO"

\* Variant: the screenshot is taken for every non-empty history.
sendPromptScreenshotNonEmpty(S, c) ==
  IF Len(S.task[c].previousSteps) > 0
    THEN runStagehand(Push(S, c, "sp366"), c, "SCREENSHOT")
    ELSE [S EXCEPT !.task[c].pc = "oracle"]

\* sendPrompt after its first try/catch (getStagehandInstance and page.url(),
\* whose failure is only logged): the screenshot when a GOTO is in the
\* history, then the generateObject call.
sendPromptScreenshot(S, c) ==
  IF HasGoto(S.task[c].previousSteps)
    THEN runStagehand(Push(S, c, "sp366"), c, "SCREENSHOT")
    ELSE [S EXCEPT !.task[c].pc = "oracle"]

sendPrompt(S, c) ==
  getStagehandInstance(Push(S, c, "sp303"), c, S.task[c].sid)

\* generateObject resolved with a step of the schema.
sendPromptDecided(S, c, tool, instruction) ==
  Return([S EXCEPT !.task[c].pc = "run",
                   !.task[c].instruction = instruction], c, "ret", tool)

\* generateObject rejected (no object matching the schema, or the call failed).
sendPromptFailed(S, c) ==
  Return([S EXCEPT !.task[c].pc = "run"], c, "thr", "oracleError")

\* case 'START': selectStartingUrl resolved, the first step is run.
POSTStartSelected(S, c, url) ==
  runStagehand(Push([S EXCEPT !.task[c].pc = "run",
                              !.task[c].instruction = url],
                    c, "start475"), c, "GOTO")

\* case 'START': selectStartingUrl rejected, caught by the outer catch.
POSTStartFailed(S, c) ==
  Respond(S, c, FALSE, "oracleError", FALSE)

\* case 'GET_NEXT_STEP': sendPrompt is called with the goal, the session id
\* and body.previousSteps; its previousExtraction parameter is left out.
POSTGetNextStep(S, c) ==
  sendPrompt(Push([S EXCEPT !.task[c].previousExtraction = "undefined"],
                  c, "next498"), c)

\* step.instruction || the fallback text
UserInputMessage(step) ==
  IF step.instruction = "" THEN DefaultMessage ELSE step.instruction

\* Variant: USER_INPUT is handed to runStagehand like any other tool.
POSTExecuteStepNoShortcut(S, c, step) ==
  runStagehand(Push([S EXCEPT !.task[c].step = step], c, "exec532"),
               c, step.tool)

\* case 'EXECUTE_STEP'
POSTExecuteStep(S, c, step) ==
  LET S1 == [S EXCEPT !.task[c].step = step] IN
  IF step.tool = "USER_INPUT"
    THEN Respond(S1, c, TRUE, UserInputMessage(step), FALSE)
    ELSE runStagehand(Push(S1, c, "exec532"), c, step.tool)

\* DELETE /api/session: endSession
endSession(S, c) ==
  IF useLocalMode
    THEN closeStagehandInstance(Push(S, c, "end139"), c, S.task[c].sid)
    ELSE Respond(S, c, TRUE, "REQUEST_RELEASE", FALSE)

\* POST /api/cleanup
POSTCleanup(S, c) ==
  closeAllStagehandInstances(Push(S, c, "cleanup6"), c)

\* ------------------------------------------------- return-address dispatch
\* Where control goes when an awaited async function settles.
Resume(S, c, addr, kind, val) ==
  CASE addr = "caller" ->
         [S EXCEPT !.task[c].pc = "done",
                   !.task[c].outcome = IF kind = "ret" THEN "returned" ELSE "threw",
                   !.task[c].result = val,
                   !.task[c].ret = IF kind = "ret" /\ val = "stagehand"
                                     THEN S.task[c].h ELSE NoHandle]
    [] addr = "run230" ->
         IF kind = "thr" THEN Return(S, c, "thr", val)
                         ELSE runStagehandTry(S, c)
    [] addr = "run258" ->
         IF kind = "thr" THEN runStagehandCatch(S, c, val)
                         ELSE Return(S, c, "ret", "undefined")
    [] addr = "run284" ->
         IF kind = "thr" THEN Return(S, c, "thr", val)
                         ELSE Return(S, c, "thr", S.task[c].err)
    [] addr = "sp303" ->
         sendPromptScreenshot(S, c)
    [] addr = "sp366" ->
         IF kind = "thr" THEN Return(S, c, "thr", val)
                         ELSE [S EXCEPT !.task[c].pc = "oracle"]
    [] addr = "next498" ->
         IF kind = "thr" THEN Respond(S, c, FALSE, val, FALSE)
                         ELSE Respond(S, c, TRUE, val, val = "CLOSE")
    [] addr = "start475" ->
         IF kind = "thr" THEN Respond(S, c, FALSE, val, FALSE)
                         ELSE Respond(S, c, TRUE, "GOTO", FALSE)
    [] addr = "exec532" ->
         IF kind = "thr" THEN Respond(S, c, FALSE, val, FALSE)
                         ELSE Respond(S, c, TRUE, val, S.task[c].method = "CLOSE")
    [] addr = "end139" ->
         Respond(S, c, TRUE, "undefined", FALSE)
    [] addr = "cleanup6" ->
         Respond(S, c, kind = "ret", val, FALSE)

\* ------------------------------------------- direct callers of the registry
NewTask(c, op, sid) ==
  [IdleTask EXCEPT !.op = op, !.sid = sid, !.pc = "run",
                   !.sawInit = {d \in TaskIds \ {c} :
                                  task[d].pc = "init" /\ task[d].sid = sid}]

Called(c, op, sid) ==
  [St EXCEPT !.task[c] = [NewTask(c, op, sid) EXCEPT !.stack = <<"caller">>]]

CanStart(c) ==
  /\ task[c].op = "idle"
  /\ \A d \in Callers : d < c => task[d].op # "idle"

CallAcquire(c, sid) ==
  /\ CanStart(c)
  /\ Apply(getStagehandInstance(Called(c, "acquire", sid), c, sid))
  /\ UNCHANGED clientVars

CallRelease(c, sid) ==
  /\ CanStart(c)
  /\ Apply(closeStagehandInstance(Called(c, "release", sid), c, sid))
  /\ UNCHANGED clientVars

CallReleaseAll(c) ==
  /\ CanStart(c)
  /\ Apply(closeAllStagehandInstances(Called(c, "releaseAll", 1), c))
  /\ UNCHANGED clientVars

\* ------------------------------------------------- awaited promises settle
InitResolves(c) ==
  /\ task[c].pc = "init"
  /\ Apply(getStagehandInstanceInitDone(St, c))
  /\ UNCHANGED clientVars

InitRejects(c) ==
  /\ task[c].pc = "init"
  /\ Apply(getStagehandInstanceInitFailed(St, c))
  /\ UNCHANGED clientVars

CloseResolves(c) ==
  /\ task[c].pc = "close"
  /\ Apply(closeStagehandInstanceClosed(St, c))
  /\ UNCHANGED clientVars

CloseRejects(c) ==
  /\ task[c].pc = "close"
  /\ Apply(closeStagehandInstanceCatch(St, c))
  /\ UNCHANGED clientVars

CloseAllSettles(c, h, ok) ==
  /\ task[c].pc = "closeAll"
  /\ h \in task[c].pending
  /\ Apply(closeAllSettled(St, c, h, ok))
  /\ UNCHANGED clientVars

CloseAllResolves(c) ==
  /\ task[c].pc = "closeAll"
  /\ task[c].pending = {}
  /\ Apply(closeAllStagehandInstancesDone(St, c))
  /\ UNCHANGED clientVars

PageResolves(c) ==
  /\ task[c].pc = "page"
  /\ hstate[task[c].h] = "live"
  /\ Apply(runStagehandPageDone(St, c))
  /\ UNCHANGED clientVars

PageRejects(c) ==
  /\ task[c].pc = "page"
  /\ Apply(runStagehandPageFailed(St, c))
  /\ UNCHANGED clientVars

WaitFires(c) ==
  /\ task[c].pc = "wait"
  /\ Apply(runStagehandWaitDone(St, c))
  /\ UNCHANGED clientVars

RunOf(c) == c - NumCallers

\* selectStartingUrl (START) or generateObject (GET_NEXT_STEP) resolves.
\* The instruction is enumerated as empty or not for USER_INPUT only; for a
\* direct request, whose answer nobody executes, a step that ends the run
\* (CLOSE) and one that does not (ACT) are enumerated.
OracleResolves(c, tool, instruction) ==
  /\ task[c].pc = "oracle"
  /\ tool # "USER_INPUT" => instruction = "instr"
  /\ IF task[c].op = "START"
       THEN tool = "GOTO" /\ Apply(POSTStartSelected(St, c, instruction))
       ELSE /\ IF c \in Callers
                 THEN tool \in {"ACT", "CLOSE"}
                 ELSE tool = "CLOSE" \/ Len(steps[RunOf(c)]) + 1 < MaxSteps
            /\ Apply(sendPromptDecided(St, c, tool, instruction))
  /\ UNCHANGED clientVars

OracleRejects(c) ==
  /\ task[c].pc = "oracle"
  /\ IF task[c].op = "START"
       THEN Apply(POSTStartFailed(St, c))
       ELSE Apply(sendPromptFailed(St, c))
  /\ UNCHANGED clientVars

RegistrySettle ==
  \E c \in TaskIds :
    \/ InitResolves(c)
    \/ InitRejects(c)
    \/ CloseResolves(c)
    \/ CloseRejects(c)
    \/ \E h \in Handles, ok \in BOOLEAN : CloseAllSettles(c, h, ok)
    \/ CloseAllResolves(c)

ServerSettle ==
  \E c \in TaskIds :
    \/ PageResolves(c)
    \/ PageRejects(c)
    \/ WaitFires(c)
    \/ \E tool \in Tools, instruction \in Instructions :
         OracleResolves(c, tool, instruction)
    \/ OracleRejects(c)

\* ------------------------------------------------------ ChatFeed (client)
\* A fetch to the server: the handler runs up to its first await.
Requested(c, op, sid) ==
  [St EXCEPT !.task[c] = NewTask(c, op, sid)]

\* Variant: the step is numbered by the length of the history before it.
NewStepZeroBased(r, tool, instruction) ==
  [tool |-> tool, instruction |-> instruction, stepNumber |-> Len(steps[r])]

NewStep(r, tool, instruction) ==
  [tool |-> tool, instruction |-> instruction,
   stepNumber |-> Len(steps[r]) + 1]

\* The user submits a goal: ChatFeed mounts and initializeSession runs up to
\* the START request (POST /api/session answered in between, ok or not).
StartChat(r, ok) ==
  /\ mounted = NoRun
  /\ rpc[r] = "NotStarted"
  /\ \A q \in Runs : q < r => rpc[q] # "NotStarted"
  /\ mounted' = r
  /\ IF ok
       THEN /\ rpc' = [rpc EXCEPT ![r] = "Starting"]
            /\ Apply([Requested(LoopTask(r), "START", r)
                        EXCEPT !.task[LoopTask(r)].pc = "oracle"])
            /\ UNCHANGED endedBy
       ELSE /\ rpc' = [rpc EXCEPT ![r] = "Terminated"]
            /\ endedBy' = [endedBy EXCEPT ![r] = "error"]
            /\ UNCHANGED <<serverVars, envVars>>
  /\ UNCHANGED <<steps, isAgentFinished, waitingForUserInput,
                 continueAfterUserInput>>

\* The loop asks for the next step.
AskNext(r, newSteps) ==
  Apply(POSTGetNextStep(
          [Requested(LoopTask(r), "GET_NEXT_STEP", r)
             EXCEPT !.task[LoopTask(r)].previousSteps = newSteps],
          LoopTask(r)))

\* The START response arrives.
StartResponse(r) ==
  LET t == task[LoopTask(r)] IN
  /\ rpc[r] = "Starting"
  /\ t.pc = "done"
  /\ IF t.outcome = "success"
       THEN /\ steps' = [steps EXCEPT ![r] = <<NewStep(r, t.result, t.instruction)>>]
            /\ rpc' = [rpc EXCEPT ![r] = "Deciding"]
            /\ AskNext(r, steps'[r])
            /\ UNCHANGED endedBy
       ELSE /\ rpc' = [rpc EXCEPT ![r] = "Terminated"]
            /\ endedBy' = [endedBy EXCEPT ![r] = "error"]
            /\ UNCHANGED <<steps, serverVars, envVars>>
  /\ UNCHANGED <<mounted, isAgentFinished, waitingForUserInput,
                 continueAfterUserInput>>

\* Variant: the decided step is sent for execution before it is recorded.
NextResponseExecFirst(r) ==
  LET t == task[LoopTask(r)] IN
  /\ rpc[r] = "Deciding"
  /\ t.pc = "done"
  /\ IF t.outcome # "success"
       THEN /\ rpc' = [rpc EXCEPT ![r] = "Terminated"]
            /\ endedBy' = [endedBy EXCEPT ![r] = "error"]
            /\ UNCHANGED <<steps, serverVars, envVars>>
       ELSE IF t.doneFlag \/ t.result = "CLOSE"
         THEN /\ steps' = [steps EXCEPT ![r] =
                              Append(@, NewStep(r, t.result, t.instruction))]
              /\ rpc' = [rpc EXCEPT ![r] = "Terminated"]
              /\ endedBy' = [endedBy EXCEPT ![r] = "close"]
              /\ UNCHANGED <<serverVars, envVars>>
         ELSE /\ rpc' = [rpc EXCEPT ![r] = "Executing"]
              /\ Apply(POSTExecuteStep(
                         Requested(LoopTask(r), "EXECUTE_STEP", r),
                         LoopTask(r),
                         [tool |-> t.result, instruction |-> t.instruction]))
              /\ UNCHANGED <<steps, endedBy>>
  /\ UNCHANGED <<mounted, isAgentFinished, waitingForUserInput,
                 continueAfterUserInput>>

\* Variant: the loop does not break on CLOSE, it records it and asks again.
NextResponseNoBreak(r) ==
  LET t == task[LoopTask(r)] IN
  /\ rpc[r] = "Deciding"
  /\ t.pc = "done"
  /\ IF t.outcome # "success"
       THEN /\ rpc' = [rpc EXCEPT ![r] = "Terminated"]
            /\ endedBy' = [endedBy EXCEPT ![r] = "error"]
            /\ UNCHANGED <<steps, serverVars, envVars>>
       ELSE /\ steps' = [steps EXCEPT ![r] =
                              Append(@, NewStep(r, t.result, t.instruction))]
            /\ IF t.doneFlag \/ t.result = "CLOSE"
                 THEN /\ AskNext(r, steps'[r])
                      /\ UNCHANGED <<rpc, endedBy>>
                 ELSE /\ rpc' = [rpc EXCEPT ![r] = "Executing"]
                      /\ Apply(POSTExecuteStep(
                                 Requested(LoopTask(r), "EXECUTE_STEP", r),
                                 LoopTask(r),
                                 [tool |-> t.result,
                                  instruction |-> t.instruction]))
                      /\ UNCHANGED endedBy
  /\ UNCHANGED <<mounted, isAgentFinished, waitingForUserInput,
                 continueAfterUserInput>>

\* The GET_NEXT_STEP response arrives: the step is recorded, then executed
\* unless it is CLOSE.
NextResponse(r) ==
  LET t == task[LoopTask(r)] IN
  /\ rpc[r] = "Deciding"
  /\ t.pc = "done"
  /\ IF t.outcome # "success"
       THEN /\ rpc' = [rpc EXCEPT ![r] = "Terminated"]
            /\ endedBy' = [endedBy EXCEPT ![r] = "error"]
            /\ UNCHANGED <<steps, serverVars, envVars>>
       ELSE /\ steps' = [steps EXCEPT ![r] =
                              Append(@, NewStep(r, t.result, t.instruction))]
            /\ IF t.doneFlag \/ t.result = "CLOSE"
                 THEN /\ rpc' = [rpc EXCEPT ![r] = "Terminated"]
                      /\ endedBy' = [endedBy EXCEPT ![r] = "close"]
                      /\ UNCHANGED <<serverVars, envVars>>
                 ELSE /\ rpc' = [rpc EXCEPT ![r] = "Executing"]
                      /\ Apply(POSTExecuteStep(
                                 Requested(LoopTask(r), "EXECUTE_STEP", r),
                                 LoopTask(r),
                                 [tool |-> t.result,
                                  instruction |-> t.instruction]))
                      /\ UNCHANGED endedBy
  /\ UNCHANGED <<mounted, isAgentFinished, waitingForUserInput,
                 continueAfterUserInput>>

LastTool(r) == steps[r][Len(steps[r])].tool

\* Variant: a USER_INPUT step does not suspend the loop.
ExecuteResponseNoPause(r) ==
  LET t == task[LoopTask(r)] IN
  /\ rpc[r] = "Executing"
  /\ t.pc = "done"
  /\ IF t.outcome # "success"
       THEN /\ rpc' = [rpc EXCEPT ![r] = "Terminated"]
            /\ endedBy' = [endedBy EXCEPT ![r] = "error"]
            /\ UNCHANGED <<steps, serverVars, envVars>>
       ELSE IF t.doneFlag
         THEN /\ rpc' = [rpc EXCEPT ![r] = "Terminated"]
              /\ endedBy' = [endedBy EXCEPT ![r] = "close"]
              /\ UNCHANGED <<steps, serverVars, envVars>>
         ELSE /\ rpc' = [rpc EXCEPT ![r] = "Deciding"]
              /\ AskNext(r, steps[r])
              /\ UNCHANGED <<steps, endedBy>>
  /\ UNCHANGED <<mounted, isAgentFinished, waitingForUserInput,
                 continueAfterUserInput>>

\* Variant: a failed execution is sent again instead of ending the run.
ExecuteResponseRetry(r) ==
  LET t == task[LoopTask(r)] IN
  /\ rpc[r] = "Executing"
  /\ t.pc = "done"
  /\ IF t.outcome # "success"
       THEN /\ Apply(POSTExecuteStep(
                       Requested(LoopTask(r), "EXECUTE_STEP", r),
                       LoopTask(r), t.step))
            /\ UNCHANGED <<rpc, steps, endedBy, waitingForUserInput,
                           continueAfterUserInput>>
       ELSE IF LastTool(r) = "USER_INPUT"
         THEN /\ rpc' = [rpc EXCEPT ![r] = "AwaitingUserInput"]
              /\ waitingForUserInput' =
                   [waitingForUserInput EXCEPT ![r] = (mounted = r)]
              /\ continueAfterUserInput' = r
              /\ UNCHANGED <<steps, endedBy, serverVars, envVars>>
         ELSE IF t.doneFlag
           THEN /\ rpc' = [rpc EXCEPT ![r] = "Terminated"]
                /\ endedBy' = [endedBy EXCEPT ![r] = "close"]
                /\ UNCHANGED <<steps, serverVars, envVars,
                               waitingForUserInput, continueAfterUserInput>>
           ELSE /\ rpc' = [rpc EXCEPT ![r] = "Deciding"]
                /\ AskNext(r, steps[r])
                /\ UNCHANGED <<steps, endedBy, waitingForUserInput,
                               continueAfterUserInput>>
  /\ UNCHANGED <<mounted, isAgentFinished>>

\* Variant: the loop goes round without asking for the next step, and
\* awaits an answer to a request that was not sent.
ExecuteResponseNoAsk(r) ==
  LET t == task[LoopTask(r)] IN
  /\ rpc[r] = "Executing"
  /\ t.pc = "done"
  /\ IF t.outcome # "success"
       THEN /\ rpc' = [rpc EXCEPT ![r] = "Terminated"]
            /\ endedBy' = [endedBy EXCEPT ![r] = "error"]
            /\ UNCHANGED <<serverVars, envVars,
                           waitingForUserInput, continueAfterUserInput>>
       ELSE IF LastTool(r) = "USER_INPUT"
         THEN /\ rpc' = [rpc EXCEPT ![r] = "AwaitingUserInput"]
              /\ waitingForUserInput' =
                   [waitingForUserInput EXCEPT ![r] = (mounted = r)]
              /\ continueAfterUserInput' = r
              /\ UNCHANGED <<endedBy, serverVars, envVars>>
         ELSE IF t.doneFlag
           THEN /\ rpc' = [rpc EXCEPT ![r] = "Terminated"]
                /\ endedBy' = [endedBy EXCEPT ![r] = "close"]
                /\ UNCHANGED <<serverVars, envVars,
                               waitingForUserInput, continueAfterUserInput>>
           ELSE /\ rpc' = [rpc EXCEPT ![r] = "Deciding"]
                /\ Apply([St EXCEPT !.task[LoopTask(r)] = IdleTask])
                /\ UNCHANGED <<endedBy, waitingForUserInput,
                               continueAfterUserInput>>
  /\ UNCHANGED <<steps, mounted, isAgentFinished>>

\* The EXECUTE_STEP response arrives.
ExecuteResponse(r) ==
  LET t == task[LoopTask(r)] IN
  /\ rpc[r] = "Executing"
  /\ t.pc = "done"
  /\ IF t.outcome # "success"
       THEN /\ rpc' = [rpc EXCEPT ![r] = "Terminated"]
            /\ endedBy' = [endedBy EXCEPT ![r] = "error"]
            /\ UNCHANGED <<steps, serverVars, envVars,
                           waitingForUserInput, continueAfterUserInput>>
       ELSE IF LastTool(r) = "USER_INPUT"
         THEN /\ rpc' = [rpc EXCEPT ![r] = "AwaitingUserInput"]
              /\ waitingForUserInput' =
                   [waitingForUserInput EXCEPT ![r] = (mounted = r)]
              /\ continueAfterUserInput' = r
              /\ UNCHANGED <<steps, endedBy, serverVars, envVars>>
         ELSE IF t.doneFlag
           THEN /\ rpc' = [rpc EXCEPT ![r] = "Terminated"]
                /\ endedBy' = [endedBy EXCEPT ![r] = "close"]
                /\ UNCHANGED <<steps, serverVars, envVars,
                               waitingForUserInput, continueAfterUserInput>>
           ELSE /\ rpc' = [rpc EXCEPT ![r] = "Deciding"]
                /\ AskNext(r, steps[r])
                /\ UNCHANGED <<steps, endedBy, waitingForUserInput,
                               continueAfterUserInput>>
  /\ UNCHANGED <<mounted, isAgentFinished>>

\* Variant: the callback sends the loop on whether or not it was waiting.
ContinueClickAlways ==
  LET k == continueAfterUserInput IN
  /\ mounted # NoRun
  /\ waitingForUserInput[mounted]
  /\ k # NoRun
  /\ waitingForUserInput' = [waitingForUserInput EXCEPT ![k] = FALSE]
  /\ rpc' = [rpc EXCEPT ![k] = "Deciding"]
  /\ AskNext(k, steps[k])
  /\ UNCHANGED <<steps, endedBy, mounted, isAgentFinished,
                 continueAfterUserInput>>

\* The user presses the continue button of the mounted ChatFeed: whatever
\* callback the window holds is called.
ContinueClick ==
  LET k == continueAfterUserInput IN
  /\ mounted # NoRun
  /\ waitingForUserInput[mounted]
  /\ k # NoRun
  /\ waitingForUserInput' = [waitingForUserInput EXCEPT ![k] = FALSE]
  /\ IF rpc[k] = "AwaitingUserInput"
       THEN /\ rpc' = [rpc EXCEPT ![k] = "Deciding"]
            /\ AskNext(k, steps[k])
       ELSE UNCHANGED <<rpc, serverVars, envVars>>
  /\ UNCHANGED <<steps, endedBy, mounted, isAgentFinished,
                 continueAfterUserInput>>

\* The effect on uiState.steps of the mounted ChatFeed: the last step is
\* CLOSE, so the agent is finished and DELETE /api/session is sent.
\* (The change of isAgentFinished runs the initialising effect again; its
\* old cleanup saw isAgentFinished = false and posts nothing, and
\* initializeSession returns at once: initializationRef.current is true
\* from the first time on, and the session id is set.)
CloseEffect(r) ==
  /\ mounted = r
  /\ steps[r] # << >>
  /\ LastTool(r) = "CLOSE"
  /\ ~isAgentFinished[r]
  /\ isAgentFinished' = [isAgentFinished EXCEPT ![r] = TRUE]
  /\ Apply(endSession(Requested(DelTask(r), "DELETE", r), DelTask(r)))
  /\ UNCHANGED <<rpc, steps, endedBy, mounted, waitingForUserInput,
                 continueAfterUserInput>>

\* The user closes the chat (Escape or the Close button): ChatFeed unmounts,
\* and its effect cleanup posts /api/cleanup when the agent had finished.
\* The loop of initializeSession is not stopped.
CloseChat(r) ==
  /\ mounted = r
  /\ mounted' = NoRun
  /\ IF isAgentFinished[r]
       THEN Apply(POSTCleanup(Requested(CleanTask(r), "CLEANUP", r),
                              CleanTask(r)))
       ELSE UNCHANGED <<serverVars, envVars>>
  /\ UNCHANGED <<rpc, steps, endedBy, isAgentFinished, waitingForUserInput,
                 continueAfterUserInput>>

Client ==
  \/ \E r \in Runs, ok \in BOOLEAN : StartChat(r, ok)
  \/ \E r \in Runs : StartResponse(r)
  \/ \E r \in Runs : NextResponse(r)
  \/ \E r \in Runs : ExecuteResponse(r)
  \/ ContinueClick
  \/ \E r \in Runs : CloseEffect(r)
  \/ \E r \in Runs : CloseChat(r)

\* ------------------------------------- direct requests to POST /api/agent
\* Requests sent to the route by any HTTP client, one after the other: the
\* body (the step, the history) is whatever the client sends.
NumRequests == 2

BodySteps ==
  [tool : {"GOTO"}, instruction : Instructions]
    \cup [tool : {"CLOSE", "WAIT", "BOGUS"}, instruction : {"instr"}]

BodyHistories ==
  { << >>,
    <<[tool |-> "ACT", instruction |-> "instr", stepNumber |-> 1]>>,
    <<[tool |-> "GOTO", instruction |-> "instr", stepNumber |-> 1]>>,
    <<[tool |-> "ACT", instruction |-> "instr", stepNumber |-> 1],
      [tool |-> "GOTO", instruction |-> "instr", stepNumber |-> 2]>> }

\* Session ids are interchangeable: the c-th request uses one of the
\* first c of them.
CanRequest(c, sid) ==
  /\ c <= NumRequests
  /\ sid <= c
  /\ CanStart(c)
  /\ \A d \in TaskIds : task[d].pc \in {"idle", "done"}

CallExecuteStep(c, sid, step) ==
  /\ CanRequest(c, sid)
  /\ Apply(POSTExecuteStep(Requested(c, "EXECUTE_STEP", sid), c, step))
  /\ UNCHANGED clientVars

CallGetNextStep(c, sid, previousSteps) ==
  /\ CanRequest(c, sid)
  /\ Apply(POSTGetNextStep(
             [Requested(c, "GET_NEXT_STEP", sid)
                EXCEPT !.task[c].previousSteps = previousSteps], c))
  /\ UNCHANGED clientVars

\* ------------------------------------------ /api/session: getClosestRegion
UnitsPerHour == 2     \* instants and offsets are counted in 1/2 hours
Day == 24 * UnitsPerHour

BrowserbaseRegion ==
  {"us-west-2", "us-east-1", "eu-central-1", "ap-southeast-1"}

\* A string is the list of its '/'-separated pieces, in both tables.
exactTimezoneMap ==
  [tz \in { <<"America", city>> :
              city \in {"New_York", "Detroit", "Toronto", "Montreal",
                        "Boston", "Chicago"} } |-> "us-east-1"]

prefixToRegion ==
  [p \in { <<name>> : name \in {"America", "US", "Canada", "Europe", "Africa",
                                "Asia", "Australia", "Pacific"} } |->
     IF p[1] \in {"America", "US", "Canada"} THEN "us-west-2"
     ELSE IF p[1] \in {"Europe", "Africa"} THEN "eu-central-1"
     ELSE "ap-southeast-1"]

offsetRanges ==
  << [min |-> -24 * UnitsPerHour, max |-> -4 * UnitsPerHour,
      region |-> "us-west-2"],
     [min |-> -3 * UnitsPerHour, max |-> 4 * UnitsPerHour,
      region |-> "eu-central-1"],
     [min |-> 5 * UnitsPerHour, max |-> 24 * UnitsPerHour,
      region |-> "ap-southeast-1"] >>

\* Both tables are object literals: the operator `in` is also true of the
\* property names they inherit from Object.prototype, and indexing with such
\* a name gives the inherited member, which is no region.
ObjectPrototypeKeys == { <<"constructor">>, <<"toString">>, <<"__proto__">> }
In(key, obj)  == key \in DOMAIN obj \/ key \in ObjectPrototypeKeys
Get(obj, key) == IF key \in DOMAIN obj THEN obj[key] ELSE "inherited member"

\* The time zones Intl.DateTimeFormat accepts among the arguments tried, with
\* their offset from UTC; for any other timeZone its constructor throws a
\* RangeError.
TimeZoneOffset ==
  LET hours == [tz \in { <<"America", "New_York">>, <<"America", "Chicago">>,
                         <<"America", "Los_Angeles">>, <<"Europe", "Berlin">>,
                         <<"Asia", "Tokyo">>, <<"UTC">>,
                         <<"Atlantic", "Reykjavik">>, <<"Indian", "Maldives">>,
                         <<"Etc", "GMT+12">>, <<"Etc", "GMT-14">> } |->
                  CASE tz = <<"America", "New_York">> -> -5
                    [] tz = <<"America", "Chicago">> -> -6
                    [] tz = <<"America", "Los_Angeles">> -> -8
                    [] tz = <<"Europe", "Berlin">> -> 1
                    [] tz = <<"Asia", "Tokyo">> -> 9
                    [] tz = <<"Indian", "Maldives">> -> 5
                    [] tz = <<"Etc", "GMT+12">> -> -12
                    [] tz = <<"Etc", "GMT-14">> -> 14
                    [] OTHER -> 0]
  IN  [tz \in DOMAIN hours |-> hours[tz] * UnitsPerHour]

\* The arguments tried: undefined, the empty string, names of both tables,
\* names only the offset fallback can place, and strings that name no zone.
Timezones ==
  DOMAIN TimeZoneOffset
    \cup { Undefined, <<"">>, <<"US", "Eastern">>, <<"Mars", "Olympus">>,
           <<"not a timezone">>, <<"constructor">>, <<"toString", "x">> }

\* The server's own time zone, as its offset from UTC.
ServerOffsets == { -8 * UnitsPerHour, 0, 9 * UnitsPerHour }

\* An instant is the time since 00:00 UTC of the day of the call.
\* formatter.format(date) with no format options prints only the calendar
\* date the instant has in the zone: here the number of that day.
FormatDate(timezone, date) == (date + TimeZoneOffset[timezone]) \div Day

\* new Date("M/D/YYYY"): 00:00 of that day on the server's clock.
ParseDate(day, serverOffset) == day * Day - serverOffset

\* hourOffset = (testDate.getTime() - date.getTime()) / 3600000
HourOffset(timezone, date, serverOffset) ==
  ParseDate(FormatDate(timezone, date), serverOffset) - date

\* timezone.split("/")[0]
Prefix(timezone) == IF timezone = Undefined THEN Undefined ELSE <<timezone[1]>>

\* offsetRanges.find(...)?.region ?? "us-west-2"
MatchingRegion(hourOffset) ==
  LET m == { i \in DOMAIN offsetRanges :
               hourOffset >= offsetRanges[i].min
               /\ hourOffset <= offsetRanges[i].max }
  IN  IF m = {} THEN "us-west-2"
      ELSE offsetRanges[CHOOSE i \in m : \A j \in m : i <= j].region

\* getClosestRegion(timezone), called at the instant date: the region it
\* returns, the return statement that produced it, and hourOffset when the
\* fallback computed one.
getClosestRegion(timezone, date, serverOffset) ==
  IF timezone = Undefined \/ timezone = <<"">>
    THEN [region |-> "us-west-2", via |-> "default", hourOffset |-> 0]
  ELSE IF In(timezone, exactTimezoneMap)
    THEN [region |-> Get(exactTimezoneMap, timezone), via |-> "exact",
          hourOffset |-> 0]
  ELSE IF In(Prefix(timezone), prefixToRegion)
    THEN [region |-> Get(prefixToRegion, Prefix(timezone)),
          via |-> "prefix", hourOffset |-> 0]
  ELSE IF timezone \notin DOMAIN TimeZoneOffset
    THEN [region |-> "us-west-2", via |-> "catch", hourOffset |-> 0]
  ELSE LET off == HourOffset(timezone, date, serverOffset)
       IN  [region |-> MatchingRegion(off), via |-> "offset",
            hourOffset |-> off]

\* createSession evaluates getClosestRegion(timezone) with the timezone of
\* the request body, in remote mode only.
GetClosestRegion ==
  /\ regionCall.pc = "called"
  /\ LET r == getClosestRegion(regionCall.timezone, regionCall.now,
                               regionCall.serverOffset)
     IN  regionCall' = [regionCall EXCEPT !.pc = "returned",
                                          !.region = r.region,
                                          !.via = r.via,
                                          !.hourOffset = r.hourOffset]
  /\ UNCHANGED <<serverVars, useLocalMode, clientVars>>

\* ---------------------------------------------------------- specifications
\* The registry under arbitrary concurrent callers of its three functions.
Next ==
  \/ \E c \in Callers, sid \in SessionIDs : CallAcquire(c, sid)
  \/ \E c \in Callers, sid \in SessionIDs : CallRelease(c, sid)
  \/ \E c \in Callers : CallReleaseAll(c)
  \/ RegistrySettle

Spec == Init /\ [][Next]_vars

\* The application: ChatFeed runs driving the route handlers.
NextRun ==
  \/ Client
  \/ RegistrySettle
  \/ ServerSettle

SpecRun == Init /\ [][NextRun]_vars

\* The application when one goal is submitted in the lifetime of the window:
\* a single ChatFeed run and the requests it causes.
NextOne ==
  \/ \E ok \in BOOLEAN : StartChat(1, ok)
  \/ \E r \in Runs : StartResponse(r)
  \/ \E r \in Runs : NextResponse(r)
  \/ \E r \in Runs : ExecuteResponse(r)
  \/ ContinueClick
  \/ \E r \in Runs : CloseEffect(r)
  \/ \E r \in Runs : CloseChat(r)
  \/ RegistrySettle
  \/ ServerSettle

SpecOne == Init /\ [][NextOne]_vars

\* The same under fair scheduling: an awaited promise of a request in flight
\* settles (the oracle and the browser answer, one way or the other), and a
\* response that has arrived is handled by the loop that awaits it.  The
\* user's actions (closing the chat, pressing continue) are under no
\* obligation.
Settles(c) ==
  \/ InitResolves(c)
  \/ InitRejects(c)
  \/ CloseResolves(c)
  \/ CloseRejects(c)
  \/ \E h \in Handles, ok \in BOOLEAN : CloseAllSettles(c, h, ok)
  \/ CloseAllResolves(c)
  \/ PageResolves(c)
  \/ PageRejects(c)
  \/ WaitFires(c)
  \/ \E tool \in Tools, instruction \in Instructions :
       OracleResolves(c, tool, instruction)
  \/ OracleRejects(c)

Continues(r) == StartResponse(r) \/ NextResponse(r) \/ ExecuteResponse(r)

SpecLive ==
  /\ SpecOne
  /\ \A c \in TaskIds : WF_vars(Settles(c))
  /\ \A r \in Runs : WF_vars(Continues(r))

\* The /api/agent route under direct requests.
NextRoute ==
  \/ \E c \in Callers, sid \in SessionIDs, step \in BodySteps :
       CallExecuteStep(c, sid, step)
  \/ \E c \in Callers, sid \in SessionIDs, previousSteps \in BodyHistories :
       CallGetNextStep(c, sid, previousSteps)
  \/ \E c \in Callers : InitResolves(c)
  \/ \E c \in Callers : InitRejects(c)
  \/ \E c \in Callers : CloseResolves(c)
  \/ \E c \in Callers : CloseRejects(c)
  \/ ServerSettle

SpecRoute == Init /\ [][NextRoute]_vars

\* The decision call alone: direct GET_NEXT_STEP requests.
NextDecide ==
  \/ \E c \in Callers, sid \in SessionIDs, previousSteps \in BodyHistories :
       CallGetNextStep(c, sid, previousSteps)
  \/ \E c \in Callers : InitResolves(c)
  \/ \E c \in Callers : InitRejects(c)
  \/ \E c \in Callers : CloseResolves(c)
  \/ \E c \in Callers : CloseRejects(c)
  \/ \E c \in Callers : PageResolves(c)
  \/ \E c \in Callers : PageRejects(c)
  \/ \E c \in Callers, tool \in Tools, instruction \in Instructions :
       OracleResolves(c, tool, instruction)
  \/ \E c \in Callers : OracleRejects(c)

SpecDecide == Init /\ [][NextDecide]_vars

\* getClosestRegion alone, over the arguments and clock readings tried.
InitRegion ==
  /\ stagehandInstances = [s \in SessionIDs |-> NoHandle]
  /\ hstate = [h \in Handles |-> "unused"]
  /\ hsid = [h \in Handles |-> 1]
  /\ closeCalls = [h \in Handles |-> 0]
  /\ task = [c \in TaskIds |-> IdleTask]
  /\ useLocalMode = FALSE
  /\ regionCall \in [pc : {"called"}, timezone : Timezones, now : 0..(Day - 1),
                     serverOffset : ServerOffsets, hourOffset : {0},
                     via : {"none"}, region : {"none"}]
  /\ rpc = [r \in Runs |-> "NotStarted"]
  /\ steps = [r \in Runs |-> << >>]
  /\ endedBy = [r \in Runs |-> "none"]
  /\ mounted = NoRun
  /\ isAgentFinished = [r \in Runs |-> FALSE]
  /\ waitingForUserInput = [r \in Runs |-> FALSE]
  /\ continueAfterUserInput = NoRun

NextRegion == GetClosestRegion

SpecRegion == InitRegion /\ [][NextRegion]_vars

\* ------------------------------------------------------------- properties
\* A handle that was initialised and on which close() was never called.
Live(h) == hstate[h] = "live" /\ closeCalls[h] = 0

Absent(sid) == stagehandInstances[sid] = NoHandle

Finished(c) == task[c].pc = "done"

\* C1: when a second acquire of an id starts while an earlier acquire of the
\* same id is still provisioning (no entry yet), the second one constructs
\* no handle of its own, and both callers are returned the same handle.
C1_SingleProvisioning ==
  \A a, b \in Callers :
    (/\ a # b
     /\ task[a].op = "acquire" /\ task[b].op = "acquire"
     /\ a \in task[b].sawInit)
    => /\ task[b].prov = 0
       /\ (/\ Finished(a) /\ Finished(b)
           /\ task[a].outcome = "returned" /\ task[b].outcome = "returned")
          => task[a].ret = task[b].ret

\* C2: in every state each session id has at most one live handle, and that
\* handle is the one the registry stores under the id.
C2_OneLiveHandlePerId ==
  \A sid \in SessionIDs :
    LET live == {h \in Handles : Live(h) /\ hsid[h] = sid} IN
    /\ Cardinality(live) <= 1
    /\ \A h \in live : stagehandInstances[sid] = h

\* C3: a release issued while an acquire of the same id is provisioning
\* closes what that acquire provisions: once both have returned (and nobody
\* else has used the id) the id has no entry and no live handle.
C3_ReleaseWaitsForProvisioning ==
  \A r, a \in Callers :
    (/\ task[r].op = "release" /\ task[a].op = "acquire"
     /\ a \in task[r].sawInit
     /\ Finished(r) /\ Finished(a)
     /\ \A d \in Callers \ {r, a} : task[d].op = "idle")
    => /\ Absent(task[r].sid)
       /\ \A h \in Handles : ~(Live(h) /\ hsid[h] = task[r].sid)

\* C4: when release returns, the id is absent from the registry, also when
\* the close() it awaited failed.
C4_EntryRemovedOnCloseFailure ==
  [][\A c \in Callers :
       (task[c].op = "release" /\ task[c].pc = "close" /\ task'[c].pc = "done")
       => stagehandInstances'[task[c].sid] = NoHandle]_vars

\* C5: release and releaseAll return normally whatever the close() calls
\* they await do: a close failure never leaves them as an exception.
C5_CloseFailureSwallowed ==
  \A c \in Callers :
    (task[c].op \in {"release", "releaseAll"} /\ Finished(c))
    => task[c].outcome = "returned"

C5_Witness ==
  \E c, d \in Callers :
    /\ task[c].op = "release" /\ Finished(c) /\ task[c].closeFailed
    /\ task[d].op = "releaseAll" /\ Finished(d) /\ task[d].closeFailed

\* C6: release of an id that has no entry returns at once without error,
\* calls close() on nothing and leaves the registry and every handle as
\* they were.
C6_ReleaseUnknownIsNoOp ==
  [][\A c \in Callers :
       (/\ task[c].op = "idle" /\ task'[c].op = "release"
        /\ Absent(task'[c].sid))
       => /\ task'[c].pc = "done"
          /\ task'[c].outcome = "returned"
          /\ closeCalls' = closeCalls
          /\ stagehandInstances' = stagehandInstances
          /\ hstate' = hstate]_vars

C6_Witness ==
  \E c \in Callers :
    /\ task[c].op = "release" /\ Finished(c)
    /\ task[c].found = NoHandle /\ task[c].outcome = "returned"
    /\ \E s \in SessionIDs \ {task[c].sid} : ~Absent(s)

\* C7: close() is invoked at most once per handle by release: no two
\* release calls both invoke close() on the same handle.
C7_CloseOncePerHandle ==
  \A c, d \in Callers :
    (/\ c # d
     /\ task[c].op = "release" /\ task[d].op = "release"
     /\ task[c].found # NoHandle)
    => task[c].found # task[d].found

\* C8: releaseAll invokes close() on every handle tracked when it starts
\* (all at once, so no failure can prevent another close), and when it
\* returns the registry is empty and it returns normally.
C8_ReleaseAllClosesAllAndClears ==
  [][\A c \in Callers :
       /\ (task[c].op = "idle" /\ task'[c].op = "releaseAll")
          => /\ \A s \in SessionIDs :
                  ~Absent(s) =>
                    /\ stagehandInstances[s] \in task'[c].snap
                    /\ closeCalls'[stagehandInstances[s]]
                         = closeCalls[stagehandInstances[s]] + 1
       /\ (task[c].op = "releaseAll" /\ ~Finished(c) /\ task'[c].pc = "done")
          => /\ \A s \in SessionIDs : stagehandInstances'[s] = NoHandle
             /\ task'[c].outcome = "returned"]_vars

C8_Witness ==
  \E c \in Callers :
    /\ task[c].op = "releaseAll" /\ Finished(c) /\ task[c].closeFailed
    /\ Cardinality(task[c].snap) >= 2
    /\ \A s \in SessionIDs : Absent(s)

\* C9: when the page call of runStagehand fails for GOTO, ACT, EXTRACT,
\* OBSERVE or NAVBACK, then at the moment the executor returns the id has no
\* registry entry, the page was called once, and the page's error is what
\* the caller gets.
C9_FailedActionReleasesSession ==
  [][\A c \in TaskIds :
       (/\ ~Finished(c) /\ task'[c].pc = "done"
        /\ task'[c].pageFailed /\ task'[c].method \in PageMethods)
       => /\ stagehandInstances'[task'[c].sid] = NoHandle
          /\ task'[c].pageCalls = 1
          /\ task'[c].outcome = "error"
          /\ task'[c].result = "pageError"]_vars

\* C10: when the execution of a step (the first GOTO of START, or an
\* EXECUTE_STEP) fails in the page call, then as the request is answered
\* close() has been invoked exactly once on the handle the step ran on; the
\* run then goes to Terminated with an error; and a Terminated run records
\* no further step and sends no further request.
C10_FailedStepClosesOnce ==
  [][\A r \in Runs :
       LET c == LoopTask(r) IN
       /\ (/\ ~Finished(c) /\ task'[c].pc = "done"
           /\ task'[c].op \in {"START", "EXECUTE_STEP"}
           /\ task'[c].pageFailed)
          => /\ closeCalls'[task'[c].pageH] = 1
             /\ task'[c].outcome = "error"
       /\ (/\ rpc[r] \in {"Starting", "Executing"} /\ rpc'[r] # rpc[r]
           /\ task[c].outcome = "error")
          => rpc'[r] = "Terminated" /\ endedBy'[r] = "error"
       /\ rpc[r] = "Terminated"
          => /\ rpc'[r] = "Terminated"
             /\ steps'[r] = steps[r]
             /\ task'[c] = task[c]]_vars

\* The step is a press of the continue button that calls run r's callback.
ResumeInvoked(r) == ContinueClick /\ continueAfterUserInput = r

\* C11: when the answer to the execution of a USER_INPUT step arrives the
\* run goes to AwaitingUserInput without sending a request; and while it is
\* there it sends no request, records no step and stays there in every step
\* that is not an invocation of its own resume callback (nothing else, no
\* timer, ends the pause).
C11_PausedUntilResumed ==
  [][\A r \in Runs :
       LET c == LoopTask(r) IN
       /\ (/\ rpc[r] = "Executing" /\ rpc'[r] # "Executing"
           /\ LastTool(r) = "USER_INPUT" /\ task[c].outcome = "success")
          => /\ rpc'[r] = "AwaitingUserInput"
             /\ task'[c] = task[c]
             /\ steps'[r] = steps[r]
       /\ (rpc[r] = "AwaitingUserInput" /\ ~ResumeInvoked(r))
          => /\ rpc'[r] = "AwaitingUserInput"
             /\ task'[c] = task[c]
             /\ steps'[r] = steps[r]]_vars

\* A run that paused on its second step, was resumed and decided again.
C11_Witness ==
  \E r \in Runs :
    /\ Len(steps[r]) >= 2
    /\ steps[r][2].tool = "USER_INPUT"
    /\ task[LoopTask(r)].op = "GET_NEXT_STEP"
    /\ Finished(LoopTask(r))

\* C12: every run in AwaitingUserInput can still be resumed, that is, the
\* window's resume callback is the one of that run (a paused run never
\* stores it again); and the continue button shown by the mounted run
\* resumes that run and no other.
C12_OwnSuspensionHandle ==
  /\ \A r \in Runs :
       rpc[r] = "AwaitingUserInput" => continueAfterUserInput = r
  /\ (mounted # NoRun /\ waitingForUserInput[mounted])
       => continueAfterUserInput = mounted

\* C13: the step in which an EXECUTE_STEP request for a USER_INPUT step is
\* sent also answers it: success, done = false, the message is the step's
\* instruction or the fallback text when the instruction is empty; no
\* handle was looked up or provisioned, no page call made, and the registry
\* and every handle are as before.
C13_UserInputNoBrowserWork ==
  [][\A r \in Runs :
       LET c == LoopTask(r) IN
       (/\ task[c].op # "EXECUTE_STEP" /\ task'[c].op = "EXECUTE_STEP"
        /\ task'[c].step.tool = "USER_INPUT")
       => /\ task'[c].pc = "done"
          /\ task'[c].outcome = "success"
          /\ task'[c].doneFlag = FALSE
          /\ task'[c].result = IF task'[c].step.instruction = ""
                                 THEN DefaultMessage
                                 ELSE task'[c].step.instruction
          /\ task'[c].h = NoHandle
          /\ task'[c].prov = 0
          /\ task'[c].pageCalls = 0
          /\ stagehandInstances' = stagehandInstances
          /\ hstate' = hstate
          /\ hsid' = hsid
          /\ closeCalls' = closeCalls]_vars

\* A USER_INPUT step with an empty instruction was applied.
C13_Witness ==
  \E r \in Runs :
    LET t == task[LoopTask(r)] IN
    /\ t.op = "EXECUTE_STEP" /\ t.pc = "done"
    /\ t.step = [tool |-> "USER_INPUT", instruction |-> ""]
    /\ t.result = DefaultMessage
    /\ rpc[r] = "AwaitingUserInput"

\* C14: whenever an EXECUTE_STEP request of a run is sent, the step it
\* carries is already the last element of the run's history (tool and
\* instruction); a run that ends by a CLOSE decision has CLOSE as its last
\* recorded step in the state where it becomes Terminated; and the release
\* request caused by CLOSE (DELETE /api/session) is sent only with CLOSE
\* already recorded.
C14_RecordedBeforeExecuted ==
  [][\A r \in Runs :
       LET c    == LoopTask(r)
           n    == Len(steps'[r])
       IN
       /\ (task'[c] # task[c] /\ task'[c].op = "EXECUTE_STEP"
           /\ task[c].op # "EXECUTE_STEP")
          => /\ n = Len(steps[r]) + 1
             /\ steps'[r][n].tool = task'[c].step.tool
             /\ steps'[r][n].instruction = task'[c].step.instruction
       /\ (endedBy[r] # "close" /\ endedBy'[r] = "close")
          => n > 0 /\ steps'[r][n].tool = "CLOSE"
       /\ (task[DelTask(r)].op = "idle" /\ task'[DelTask(r)].op # "idle")
          => steps[r] # << >> /\ LastTool(r) = "CLOSE"]_vars

\* A decided ACT step is in execution (waiting for the page), recorded as
\* step 2.
C14_Witness ==
  \E r \in Runs :
    /\ rpc[r] = "Executing"
    /\ task[LoopTask(r)].pc = "page"
    /\ Len(steps[r]) = 2
    /\ steps[r][2].tool = "ACT"
    /\ task[LoopTask(r)].pageCalls = 1

\* C15: a Terminated run stays Terminated, records no further step and
\* sends no further request; once CLOSE is recorded the history and the
\* run's request never change again; and in every state CLOSE occurs in a
\* history only as its last element.
C15_NothingAfterTermination ==
  [][\A r \in Runs :
       LET c == LoopTask(r) IN
       /\ rpc[r] = "Terminated"
          => /\ rpc'[r] = "Terminated"
             /\ endedBy'[r] = endedBy[r]
             /\ steps'[r] = steps[r]
             /\ task'[c] = task[c]
       /\ (steps[r] # << >> /\ LastTool(r) = "CLOSE")
          => /\ rpc[r] = "Terminated"
             /\ steps'[r] = steps[r]
       /\ \A i \in 1..Len(steps'[r]) :
            steps'[r][i].tool = "CLOSE" => i = Len(steps'[r])]_vars

\* A run ended by CLOSE whose release request has been answered and whose
\* chat has been closed since.
C15_Witness ==
  \E r \in Runs :
    /\ rpc[r] = "Terminated" /\ endedBy[r] = "close"
    /\ Finished(DelTask(r))
    /\ task[CleanTask(r)].op # "idle"

\* C16: in every state where a run is Terminated (ended by CLOSE or by an
\* error) the registry has no entry for the run's session id and no handle
\* built for that id is live. (Stated for the behaviours in which no close()
\* has failed, so that the entry kept after a failed close does not count.)
C16_ReleasedWhenTerminated ==
  \A r \in Runs :
    (rpc[r] = "Terminated" /\ \A c \in TaskIds : ~task[c].closeFailed)
    => /\ Absent(r)
       /\ \A h \in Handles : ~(hsid[h] = r /\ Live(h))

\* C17: a run ended by a CLOSE decision has recorded the GOTO of START as
\* step 1, then the executed decided steps, none of them CLOSE, then CLOSE,
\* numbered 1..n+2; the answer that carried CLOSE had done = true; and once
\* the release request it causes (DELETE /api/session) has been answered,
\* the registry has no entry and no live handle for the run's session.
\* (Stated for the behaviours in which no close() has failed.)
C17_CloseRunShape ==
  \A r \in Runs :
    endedBy[r] = "close"
    => LET n == Len(steps[r]) IN
       /\ n >= 2
       /\ steps[r][1].tool = "GOTO"
       /\ steps[r][n].tool = "CLOSE"
       /\ \A i \in 1..n : steps[r][i].stepNumber = i
       /\ \A i \in 1..(n - 1) : steps[r][i].tool # "CLOSE"
       /\ task[LoopTask(r)].doneFlag
       /\ (/\ Finished(DelTask(r))
           /\ \A c \in TaskIds : ~task[c].closeFailed)
          => /\ Absent(r)
             /\ \A h \in Handles : ~(hsid[h] = r /\ Live(h))

\* C18: in every state the i-th recorded step of a run has stepNumber i, and
\* every step of the program either leaves a run's history as it is or
\* appends exactly one step to it.
C18_StepNumbersDense ==
  [][\A r \in Runs :
       /\ \A i \in 1..Len(steps'[r]) : steps'[r][i].stepNumber = i
       /\ \/ steps'[r] = steps[r]
          \/ /\ Len(steps'[r]) = Len(steps[r]) + 1
             /\ SubSeq(steps'[r], 1, Len(steps[r])) = steps[r]]_vars

\* A run has recorded as many steps as the bound allows.
C18_Witness ==
  \E r \in Runs :
    /\ Len(steps[r]) = MaxSteps
    /\ steps[r][MaxSteps].stepNumber = MaxSteps

\* C19: while a request of a run's loop is in flight the run sends no other
\* request, records nothing and does not change state; a new request is
\* sent only after the previous one was answered with success, so a failed
\* decision or execution is never sent again; and every EXECUTE_STEP request
\* is for the step recorded in that same step of the program, the next
\* stepNumber, so steps are executed in order and none twice.
C19_SequentialNoRetry ==
  [][\A r \in Runs :
       LET c == LoopTask(r) IN
       /\ task[c].pc \notin {"idle", "done"}
          => /\ task'[c].op = task[c].op
             /\ task'[c].step = task[c].step
             /\ rpc'[r] = rpc[r]
             /\ steps'[r] = steps[r]
       /\ (task[c].pc = "done" /\ task'[c] # task[c])
          => /\ task[c].outcome = "success"
             /\ task'[c].op \in {"GET_NEXT_STEP", "EXECUTE_STEP"}
             /\ task'[c].op = "EXECUTE_STEP"
                => /\ task[c].op = "GET_NEXT_STEP"
                   /\ Len(steps'[r]) = Len(steps[r]) + 1
                   /\ steps'[r][Len(steps'[r])].stepNumber = Len(steps[r]) + 1
                   /\ steps'[r][Len(steps'[r])].tool = task'[c].step.tool
             /\ task'[c].op = "GET_NEXT_STEP"
                => task[c].op \in {"START", "EXECUTE_STEP"}
       /\ (task[c].pc = "done" /\ task[c].outcome = "error"
           /\ rpc[r] # "Terminated")
          => (rpc'[r] = rpc[r] \/ rpc'[r] = "Terminated")]_vars

\* The execution of a run's second step failed in the page and the run
\* ended with an error.
C19_Witness ==
  \E r \in Runs :
    LET t == task[LoopTask(r)] IN
    /\ rpc[r] = "Terminated" /\ endedBy[r] = "error"
    /\ t.op = "EXECUTE_STEP" /\ t.pageFailed /\ t.pageCalls = 1
    /\ Len(steps[r]) = 2

\* A run whose ChatFeed was discarded: it was started and is not mounted
\* (a ChatFeed is never mounted again for the same run).
Cancelled(r) == rpc[r] # "NotStarted" /\ mounted # r

\* C20: the step that discards a run whose session has a registry entry
\* (the chat is closed while the run is deciding, executing or awaiting
\* user input) sends a request that releases it (/api/cleanup or DELETE
\* /api/session); and a discarded run sends no further decide or execute
\* request: it can only become Terminated.
C20_CancelReleasesAndStops ==
  [][\A r \in Runs :
       LET c == LoopTask(r) IN
       /\ (/\ mounted = r /\ mounted' # r
           /\ rpc[r] \in {"Deciding", "Executing", "AwaitingUserInput"}
           /\ ~Absent(r))
          => \/ task'[CleanTask(r)].op = "CLEANUP"
             \/ task'[DelTask(r)].op = "DELETE"
       /\ (Cancelled(r) /\ rpc'[r] # rpc[r])
          => /\ rpc'[r] = "Terminated"
             /\ task'[c] = task[c]]_vars

\* A step the executor cannot carry out: a tool outside the eight of the
\* Step type, or no instruction for a tool that needs one.
Malformed(step) ==
  \/ step.tool \notin Tools
  \/ step.tool \in {"GOTO", "ACT", "EXTRACT"} /\ step.instruction = ""

\* C21: an EXECUTE_STEP request whose step is malformed is answered at once
\* with an error: no handle is looked up or provisioned for it, no page
\* call is made, and the registry and every handle stay as they were.
C21_MalformedStepRejected ==
  [][\A c \in Callers :
       (/\ task[c].op = "idle" /\ task'[c].op = "EXECUTE_STEP"
        /\ Malformed(task'[c].step))
       => /\ task'[c].pc = "done"
          /\ task'[c].outcome = "error"
          /\ task'[c].h = NoHandle
          /\ task'[c].prov = 0
          /\ task'[c].pageCalls = 0
          /\ stagehandInstances' = stagehandInstances
          /\ hstate' = hstate]_vars

\* C22: when a run asks for the next step after the execution of an EXTRACT
\* or OBSERVE step was answered, the payload of that answer is what the
\* decision call gets as previousExtraction.
C22_ExtractionFedToDecision ==
  [][\A r \in Runs :
       LET c == LoopTask(r) IN
       (/\ task[c].op = "EXECUTE_STEP" /\ task[c].pc = "done"
        /\ task[c].step.tool \in {"EXTRACT", "OBSERVE"}
        /\ task'[c].op = "GET_NEXT_STEP")
       => task'[c].previousExtraction = task[c].result]_vars

\* A run that was started and has not ended.
InProgress(r) ==
  rpc[r] \in {"Starting", "Deciding", "Executing", "AwaitingUserInput"}

\* The requests that act in this step are requests of session s.
ActsFor(s) ==
  \A c \in TaskIds : task'[c] # task[c] => task'[c].sid = s

\* C23: while the run of a session is in progress, close() is invoked on a
\* handle of that session, and the session's registry entry is removed,
\* only in steps of requests made for that session.
C23_RunsIsolated ==
  [][\A s \in SessionIDs :
       InProgress(s)
       => /\ \A h \in Handles :
               (hsid[h] = s /\ closeCalls'[h] # closeCalls[h]) => ActsFor(s)
          /\ (~Absent(s) /\ stagehandInstances'[s] = NoHandle)
               => ActsFor(s)]_vars

\* Session s has been released: a handle built for it was closed.
Released(s) == \E g \in Handles : hsid[g] = s /\ hstate[g] = "closed"

\* C24: a GET_NEXT_STEP or EXECUTE_STEP request for a session that has been
\* released constructs no new handle for it: no handle goes from unused to
\* initing for a released session id.
C24_NoProvisionAfterRelease ==
  [][\A h \in Handles :
       (hstate[h] = "unused" /\ hstate'[h] = "initing")
       => ~Released(hsid'[h])]_vars

\* C28: a decision call asks the browser for a screenshot exactly when the
\* history passed to it contains a GOTO step: a GET_NEXT_STEP request whose
\* history is empty or has no GOTO never calls runStagehand(SCREENSHOT) and
\* makes no page call, and one whose history has a GOTO has asked for the
\* screenshot, once, by the time the oracle is consulted.
C28_ScreenshotIffGoto ==
  \A c \in TaskIds :
    LET t == task[c] IN
    t.op = "GET_NEXT_STEP"
    => /\ ~HasGoto(t.previousSteps)
          => t.method = "none" /\ t.pageCalls = 0
       /\ (HasGoto(t.previousSteps)
           /\ (t.pc = "oracle" \/ (t.pc = "done" /\ t.outcome = "success")))
          => t.method = "SCREENSHOT" /\ t.pageCalls = 1

\* Two decision calls have been answered, one with a history without GOTO
\* and no screenshot, one with a GOTO in second place and a screenshot.
C28_Witness ==
  \E c, d \in Callers :
    /\ task[c].op = "GET_NEXT_STEP" /\ Finished(c)
    /\ Len(task[c].previousSteps) = 1 /\ task[c].pageCalls = 0
    /\ task[c].outcome = "success"
    /\ task[d].op = "GET_NEXT_STEP" /\ Finished(d)
    /\ Len(task[d].previousSteps) = 2 /\ task[d].pageCalls = 1
    /\ task[d].outcome = "success"

\* C29: whenever an entry is removed from the registry, close() has been
\* invoked on the handle it held.
C29_NoOpenHandleEvicted ==
  [][\A s \in SessionIDs :
       (~Absent(s) /\ stagehandInstances'[s] = NoHandle)
       => closeCalls'[stagehandInstances[s]] > 0]_vars

\* C30: an EXECUTE_STEP request with tool CLOSE constructs no handle, and
\* when it is answered the registry has no entry for its session id.
\* (Stated for the behaviours in which no close() has failed.)
C30_CloseNeverProvisions ==
  \A c \in TaskIds :
    (task[c].op = "EXECUTE_STEP" /\ task[c].step.tool = "CLOSE")
    => /\ task[c].prov = 0
       /\ (Finished(c) /\ \A d \in TaskIds : ~task[d].closeFailed)
          => Absent(task[c].sid)

\* The region the resolution order assigns: the exact table, then the
\* continent table on the text before the first '/', then the range that
\* holds the zone's UTC offset, else the default.
ResolvedRegion(timezone) ==
  IF timezone = Undefined THEN "us-west-2"
  ELSE IF timezone \in DOMAIN exactTimezoneMap THEN "us-east-1"
  ELSE IF Prefix(timezone) \in DOMAIN prefixToRegion
    THEN prefixToRegion[Prefix(timezone)]
  ELSE IF timezone \in DOMAIN TimeZoneOffset
    THEN MatchingRegion(TimeZoneOffset[timezone])
  ELSE "us-west-2"

\* C25: getClosestRegion resolves in order, first match wins: exact table
\* (us-east-1), else the continent table on the prefix, else the bucket of
\* the zone's UTC offset, else us-west-2.  (Stated for arguments whose text
\* and prefix are not property names of Object.prototype, which C26 covers.)
C25_ResolutionOrder ==
  (/\ regionCall.pc = "returned"
   /\ regionCall.timezone \notin ObjectPrototypeKeys
   /\ Prefix(regionCall.timezone) \notin ObjectPrototypeKeys)
  => regionCall.region = ResolvedRegion(regionCall.timezone)

\* C26: for every argument getClosestRegion returns one of the four regions.
C26_TotalIntoRegions ==
  regionCall.pc = "returned" => regionCall.region \in BrowserbaseRegion

\* C27: every offset in [-24, +24] that the offset computation yields lies in
\* exactly one of the three ranges.
C27_RangesPartitionSpan ==
  (/\ regionCall.pc = "returned"
   /\ regionCall.via = "offset"
   /\ regionCall.hourOffset \in (-Day)..Day)
  => Cardinality({ i \in DOMAIN offsetRanges :
                     /\ regionCall.hourOffset >= offsetRanges[i].min
                     /\ regionCall.hourOffset <= offsetRanges[i].max }) = 1

\* The step is a press of the continue button that calls a callback whose
\* run is not in AwaitingUserInput: the promise it resolves is settled.
StaleResume ==
  ContinueClick /\ rpc[continueAfterUserInput] # "AwaitingUserInput"

\* C31: a resume callback invoked while its run is not in AwaitingUserInput
\* changes no run's position, history or request and leaves the stored
\* callback as it is; and whatever was signalled before, the answer to the
\* execution of a USER_INPUT step still puts the run in AwaitingUserInput
\* with a callback of its own.
C31_StaleResumeNoEffect ==
  [][/\ StaleResume
        => /\ rpc' = rpc
           /\ steps' = steps
           /\ endedBy' = endedBy
           /\ task' = task
           /\ continueAfterUserInput' = continueAfterUserInput
     /\ \A r \in Runs :
          (/\ rpc[r] = "Executing" /\ rpc'[r] # "Executing"
           /\ LastTool(r) = "USER_INPUT"
           /\ task[LoopTask(r)].outcome = "success")
          => /\ rpc'[r] = "AwaitingUserInput"
             /\ continueAfterUserInput' = r]_vars

\* The continue button is shown and the callback it would call belongs to a
\* run that was resumed by it before and has gone on since.
C31_Witness ==
  /\ mounted # NoRun
  /\ waitingForUserInput[mounted]
  /\ continueAfterUserInput # NoRun
  /\ continueAfterUserInput # mounted
  /\ rpc[continueAfterUserInput] \in {"Deciding", "Executing", "Terminated"}
  /\ Len(steps[continueAfterUserInput]) >= 2
  /\ steps[continueAfterUserInput][2].tool = "USER_INPUT"

\* C32: under fair scheduling a run does not stay in Starting, Deciding or
\* Executing for ever, and if each of its pauses in AwaitingUserInput is
\* eventually resumed, a run in progress eventually reaches Terminated.
C32_RunTerminates ==
  \A r \in Runs :
    /\ (rpc[r] = "Starting") ~> (rpc[r] # "Starting")
    /\ (rpc[r] = "Deciding") ~> (rpc[r] # "Deciding")
    /\ (rpc[r] = "Executing") ~> (rpc[r] # "Executing")
    /\ ((rpc[r] = "AwaitingUserInput") ~> (rpc[r] # "AwaitingUserInput"))
       => (InProgress(r) ~> (rpc[r] = "Terminated"))

\* A run that paused, was resumed, and ended on the oracle's CLOSE.
C32_Witness ==
  \E r \in Runs :
    /\ rpc[r] = "Terminated"
    /\ endedBy[r] = "close"
    /\ Len(steps[r]) = MaxSteps
    /\ steps[r][2].tool = "USER_INPUT"
    /\ LastTool(r) = "CLOSE"

====
